---- MODULE Spec2Model ----
(***************************************************************************)
(* Voice-memo widget (React component) and its transcription endpoint      *)
(* (/api/transcribe).  The component is event driven: every action below   *)
(* is one handler, or the part of an async function between two awaits,    *)
(* run to completion on the browser's single thread.  The MediaRecorder,   *)
(* the audio elements, getUserMedia, the network and the speech-to-text    *)
(* model are the environment; their events are actions of their own.       *)
(***************************************************************************)
EXTENDS Integers, Sequences, FiniteSets, TLC

VARIABLES
    isRecording,         \* useState(false)
    hasPermission,       \* useState<boolean | null>(null): Null, "true", "false"
    recordings,          \* useState<AudioRecording[]>([])
    isProcessing,        \* useState(false)
    playingId,           \* useState<string | null>(null)
    isTranscribing,      \* useState(false)
    transcriptionError,  \* useState<string | null>(null)
    mediaRecorderRef,    \* useRef<MediaRecorder | null>: index into recorders
    audioChunksRef,      \* useRef<Blob[]>: the one chunk buffer of the component
    draft,               \* textareaRef.current.value
    recorders,           \* every stream granted so far, with the MediaRecorder on it
    pendingMedia,        \* startRecording calls suspended in getUserMedia
    audio,               \* the <audio> element rendered for recordings[i]
    calls,               \* HTTP requests to /api/transcribe, one per fetch
    now,                 \* last reading of the millisecond clock
    started,             \* startRecording calls made so far
    retries,             \* Retry clicks made so far
    webmSupported        \* this browser's MediaRecorder accepts audio/webm

vars == <<isRecording, hasPermission, recordings, isProcessing, playingId,
          isTranscribing, transcriptionError, mediaRecorderRef, audioChunksRef,
          draft, recorders, pendingMedia, audio, calls, now, started, retries,
          webmSupported>>

sessionVars == <<isRecording, hasPermission, recordings, isProcessing, playingId,
                 isTranscribing, transcriptionError, mediaRecorderRef,
                 audioChunksRef, draft, recorders, pendingMedia, audio, now,
                 started, retries, webmSupported>>

-----------------------------------------------------------------------------
(* Bounds of the model *)

\* startRecording calls per run
MaxCaptures == 2

\* Retry clicks per run
MaxRetries == 1

\* requests sent to the endpoint by HTTP clients other than the component
MaxDirect == 2

-----------------------------------------------------------------------------
(* Values *)

\* JavaScript null / undefined
Null == "<null>"

\* mediaRecorderRef.current === null
NoRecorder == 0

\* 25 * 1024 * 1024, the endpoint's size ceiling
MaxUploadBytes == 25 * 1024 * 1024

\* sizes of the Blob a MediaRecorder hands to ondataavailable
ChunkSizes == {0, 4000, MaxUploadBytes + 1}

\* sizes of the audio file in a request built by another HTTP client
DirectSizes == {0, MaxUploadBytes - 1, MaxUploadBytes, MaxUploadBytes + 1}

\* texts the speech-to-text model may recognise ("" for silence)
Texts == {"", "hello world", "foo"}

\* messages of the errors the speech-to-text call may throw
UpstreamMessages == {"rate limit exceeded"}

\* message of the TypeError a failed fetch rejects with
FetchFailedMessage == "Failed to fetch"

\* message of the error request.formData() throws on a body it cannot parse
ParseFailedMessage == "Failed to parse body as FormData."

RECURSIVE SumSizes(_)
\* Blob.size of new Blob(chunks): the sizes of the parts added up
SumSizes(chunks) ==
    IF chunks = <<>> THEN 0
    ELSE chunks[1].size + SumSizes(Tail(chunks))

-----------------------------------------------------------------------------
(* The endpoint's responses (route.ts) *)

\* NextResponse.json({ error }, { status: 400 }): the body as response.text() reads it
ErrorJson(error) == "{\"error\":\"" \o error \o "\"}"

\* error.constructor.name and error.stack of an Error with this message
ErrorType == "Error"
ErrorStack(message) == ErrorType \o ": " \o message

\* `Transcription failed: ${error.message}`
FailedMessage(message) == "Transcription failed: " \o message

\* the body of the catch block's 500 response
FailureJson(message) ==
    "{\"error\":\"" \o FailedMessage(message)
        \o "\",\"details\":\"" \o ErrorStack(message)
        \o "\",\"type\":\"" \o ErrorType
        \o "\",\"debug\":{\"error\":{\"message\":\"" \o message
        \o "\",\"type\":\"" \o ErrorType
        \o "\",\"stack\":\"" \o ErrorStack(message) \o "\"}}}"

NoAudioBody == ErrorJson("No audio file provided")
TooLargeBody == ErrorJson("File size exceeds 25MB limit")

\* if (!audioFile): formData.get("audio") is null when the form has no such field
AudioMissing_Never(kind) == FALSE
AudioMissing(kind) == kind = "noaudio"

\* audioFile.size > 25 * 1024 * 1024
SizeExceedsLimit_OffByOne(size) == size >= MaxUploadBytes
SizeExceedsLimit(size) == size > MaxUploadBytes

\* response.ok
ResponseOk(status) == status \in 200..299

\* a request as fetch (or another client) sends it; nothing has answered yet
NewCall(client, recordingId, kind, size) ==
    [client |-> client, recordingId |-> recordingId, kind |-> kind,
     size |-> size, stage |-> "sent", status |-> 0, text |-> Null,
     body |-> Null, modelCalls |-> 0, upstream |-> Null, settled |-> FALSE,
     outcome |-> Null, latestFailure |-> FALSE]

\* the endpoint answers call k
Respond(k, status, text, body) ==
    calls' = [calls EXCEPT ![k].stage = "responded", ![k].status = status,
                           ![k].text = text, ![k].body = body]

-----------------------------------------------------------------------------
(* The component's pure parts (part_000) *)

\* Date.now().toString()
IdOf(t) == ToString(t)

\* URL.createObjectURL(audioBlob): a fresh URL per call
ObjectUrl(n) == "blob:" \o ToString(n)

\* `API request failed: ${response.status} - ${errorText}`
ApiFailedMessage_StatusOnly(status, errorText) ==
    "API request failed: " \o ToString(status)
ApiFailedMessage(status, errorText) ==
    "API request failed: " \o ToString(status) \o " - " \o errorText

NoTextMessage == "No transcription text received"

\* if (result.text): a string is truthy unless it is empty
TextReceived(text) == text # ""

\* currentText ? `${currentText} ${result.text}` : result.text
JoinDraft_NoSpace(currentText, text) == currentText \o text
JoinDraft(currentText, text) ==
    IF currentText # "" THEN currentText \o " " \o text ELSE text

\* prev.map(r => r.id === recordingId ? { ...r, transcription: text } : r)
SetTranscription_Last(prev, recordingId, text) ==
    [prev EXCEPT ![Len(prev)].transcription = text]
SetTranscription(prev, recordingId, text) ==
    [i \in DOMAIN prev |->
        IF prev[i].id = recordingId
        THEN [prev[i] EXCEPT !.transcription = text]
        ELSE prev[i]]

\* [...prev, newRecording]
AppendRecording_Prepend(prev, newRecording) == <<newRecording>> \o prev
AppendRecording(prev, newRecording) == Append(prev, newRecording)

\* new Blob(audioChunksRef.current): the buffered parts in order
AssembleBlob(chunks) == chunks

\* ondataavailable: if (event.data.size > 0) audioChunksRef.current.push(event.data)
PushChunk(chunks, data) ==
    IF data.size > 0 THEN Append(chunks, data) ELSE chunks

\* onstop: setIsProcessing(true) at line 52 and setIsProcessing(false) at
\* line 65 run in the same callback, with no await between them, so the
\* value the callback leaves is the last one set
ProcessingAfterFinalize_LeftOn == TRUE
ProcessingAfterFinalize == FALSE

\* finally { setIsTranscribing(false) }
TranscribingAfterSettle_OnlyOnSuccess(succeeded) == ~succeeded
TranscribingAfterSettle(succeeded) == FALSE

\* audioRefs.current.get(id): the ref callbacks run in render order, so an id
\* shared by two recordings ends up mapped to the later one's element
AudioRefsGet(id) ==
    LET S == {i \in DOMAIN recordings : recordings[i].id = id}
    IN  IF S = {} THEN 0 ELSE CHOOSE i \in S : \A j \in S : j <= i

-----------------------------------------------------------------------------
(* Initial state: the component as mounted, no request in flight, in a *)
(* browser whose MediaRecorder does or does not record audio/webm       *)

Init ==
    /\ webmSupported \in BOOLEAN
    /\ isRecording = FALSE
    /\ hasPermission = Null
    /\ recordings = <<>>
    /\ isProcessing = FALSE
    /\ playingId = Null
    /\ isTranscribing = FALSE
    /\ transcriptionError = Null
    /\ mediaRecorderRef = NoRecorder
    /\ audioChunksRef = <<>>
    /\ draft = ""
    /\ recorders = <<>>
    /\ pendingMedia = 0
    /\ audio = <<>>
    /\ calls = <<>>
    /\ now = 0
    /\ started = 0
    /\ retries = 0

-----------------------------------------------------------------------------
(* Capture: startRecording, stopRecording, the recorder's callbacks *)

\* transcribeAudio up to its await fetch(...): lines 82-95.  caller ("capture"
\* or "retry") only records who called; the code does not look at it
TranscribeAudioStart(blob, recordingId, caller) ==
    /\ isTranscribing' = TRUE
    /\ transcriptionError' = Null
    /\ calls' = Append(calls, NewCall(caller, recordingId, "file", SumSizes(blob)))

\* startRecording up to its await getUserMedia(...): lines 29-32
StartRecording ==
    /\ started < MaxCaptures
    /\ started' = started + 1
    /\ transcriptionError' = Null
    /\ pendingMedia' = pendingMedia + 1
    /\ UNCHANGED <<webmSupported, isRecording, hasPermission, recordings, isProcessing, playingId,
                   isTranscribing, mediaRecorderRef, audioChunksRef, draft,
                   recorders, audio, calls, now, retries>>

\* stopRecording: lines 135-140.  stop() on a recorder that is not recording
\* throws, and the handler ends before setIsRecording(false)
StopRecording ==
    /\ mediaRecorderRef # NoRecorder
    /\ isRecording
    /\ IF recorders[mediaRecorderRef].state = "recording"
       THEN /\ recorders' = [recorders EXCEPT ![mediaRecorderRef].state = "stopping"]
            /\ isRecording' = FALSE
       ELSE UNCHANGED <<recorders, isRecording>>
    /\ UNCHANGED <<webmSupported, hasPermission, recordings, isProcessing, playingId,
                   isTranscribing, transcriptionError, mediaRecorderRef,
                   audioChunksRef, draft, pendingMedia, audio, calls, now,
                   started, retries>>

\* the microphone button (disabled while isTranscribing): handleMicClick, lines 142-148
MicClick ==
    /\ ~isTranscribing
    /\ IF isRecording THEN StopRecording ELSE StartRecording

\* the square stop button, rendered while isRecording: lines 191-198
StopClick ==
    /\ isRecording
    /\ StopRecording

\* what startRecording would be if it waited, after the device's answer,
\* for the transcriptions in flight
MediaGranted_Serialized ==
    /\ pendingMedia > 0
    /\ \A k \in DOMAIN calls : calls[k].settled
    /\ pendingMedia' = pendingMedia - 1
    /\ audioChunksRef' = <<>>
    /\ hasPermission' = "true"
    /\ recorders' = Append(recorders,
           [state |-> "recording", streamLive |-> TRUE, data |-> <<>>,
            recording |-> 0])
    /\ mediaRecorderRef' = Len(recorders) + 1
    /\ isRecording' = TRUE
    /\ UNCHANGED <<webmSupported, recordings, isProcessing, playingId, isTranscribing,
                   transcriptionError, draft, audio, calls, now, started, retries>>

\* getUserMedia resolves with a stream: lines 33-74.  new MediaRecorder
\* throws NotSupportedError when the browser does not record the mime type
\* (audio/webm unless the opus variant is supported); the catch block, lines
\* 75-78, then runs with the stream open and no recorder on it.
MediaGranted ==
    /\ pendingMedia > 0
    /\ pendingMedia' = pendingMedia - 1
    /\ audioChunksRef' = <<>>
    /\ IF webmSupported
       THEN /\ hasPermission' = "true"
            /\ recorders' = Append(recorders,
                   [state |-> "recording", streamLive |-> TRUE, data |-> <<>>,
                    recording |-> 0])
            /\ mediaRecorderRef' = Len(recorders) + 1
            /\ isRecording' = TRUE
       ELSE /\ hasPermission' = "false"
            /\ recorders' = Append(recorders,
                   [state |-> "unbuilt", streamLive |-> TRUE, data |-> <<>>,
                    recording |-> 0])
            /\ UNCHANGED <<mediaRecorderRef, isRecording>>
    /\ UNCHANGED <<webmSupported, recordings, isProcessing, playingId, isTranscribing,
                   transcriptionError, draft, audio, calls, now, started, retries>>

\* getUserMedia rejects: the catch block, lines 75-78
MediaRefused ==
    /\ pendingMedia > 0
    /\ pendingMedia' = pendingMedia - 1
    /\ hasPermission' = "false"
    /\ UNCHANGED <<webmSupported, isRecording, recordings, isProcessing, playingId, isTranscribing,
                   transcriptionError, mediaRecorderRef, audioChunksRef, draft,
                   recorders, audio, calls, now, started, retries>>

\* The task a recorder queues on stop(): it fires dataavailable with all the
\* data gathered (start() was given no timeslice, so this is the only chunk),
\* then stop.  ondataavailable is lines 45-49, onstop lines 51-71; onstop runs
\* transcribeAudio up to its first await.  The clock read by Date.now() has
\* not gone back since the last reading.
RecorderStops(r) ==
    /\ recorders[r].state = "stopping"
    /\ \E size \in ChunkSizes, t \in {now, now + 1} :
         LET data == [capture |-> r, size |-> size]
             chunks == PushChunk(audioChunksRef, data)
             audioBlob == AssembleBlob(chunks)
             newRecording == [id |-> IdOf(t),
                              url |-> ObjectUrl(Len(recordings) + 1),
                              blob |-> audioBlob,
                              timestamp |-> t,
                              transcription |-> Null]
         IN  /\ audioChunksRef' = chunks
             /\ now' = t
             /\ recordings' = AppendRecording(recordings, newRecording)
             /\ isProcessing' = ProcessingAfterFinalize
             /\ recorders' = [recorders EXCEPT
                                ![r].state = "inactive",
                                ![r].streamLive = FALSE,
                                ![r].data = PushChunk(<<>>, data),
                                ![r].recording = Len(recordings) + 1]
             /\ audio' = Append(audio, [playing |-> FALSE, endedQueued |-> FALSE])
             /\ TranscribeAudioStart(audioBlob, newRecording.id, "capture")
    /\ UNCHANGED <<webmSupported, isRecording, hasPermission, playingId, mediaRecorderRef, draft,
                   pendingMedia, started, retries>>

\* the Retry link of the error display: lines 245-249, then retryTranscription
RetryClick ==
    /\ transcriptionError # Null
    /\ retries < MaxRetries
    /\ recordings # <<>>
    /\ retries' = retries + 1
    /\ LET lastRecording == recordings[Len(recordings)]
       IN  TranscribeAudioStart(lastRecording.blob, lastRecording.id, "retry")
    /\ UNCHANGED <<webmSupported, isRecording, hasPermission, recordings, isProcessing, playingId,
                   mediaRecorderRef, audioChunksRef, draft, recorders,
                   pendingMedia, audio, now, started>>

-----------------------------------------------------------------------------
(* Transcription: transcribeAudio after its await fetch(...) *)

\* the catch block, line 124, then the finally block, line 126.  latestFailure
\* marks the call whose failure is the most recent one; the code keeps no
\* such record
TranscribeFails_Resends(k, message, outcome) ==
    /\ transcriptionError' = message
    /\ isTranscribing' = TRUE
    /\ calls' = Append([calls EXCEPT ![k].settled = TRUE, ![k].outcome = outcome],
                       NewCall("retry", calls[k].recordingId, calls[k].kind,
                               calls[k].size))
    /\ UNCHANGED <<recordings, draft>>
TranscribeFails_RollsBack(k, message, outcome) ==
    /\ transcriptionError' = message
    /\ isTranscribing' = TranscribingAfterSettle(FALSE)
    /\ calls' = [calls EXCEPT ![k].settled = TRUE, ![k].outcome = outcome]
    /\ recordings' = SelectSeq(recordings, LAMBDA r : r.id # calls[k].recordingId)
    /\ UNCHANGED draft
TranscribeFails(k, message, outcome) ==
    /\ transcriptionError' = message
    /\ isTranscribing' = TranscribingAfterSettle(FALSE)
    /\ calls' = [j \in DOMAIN calls |->
                   IF j = k
                   THEN [calls[j] EXCEPT !.settled = TRUE, !.outcome = outcome,
                                         !.latestFailure = TRUE]
                   ELSE [calls[j] EXCEPT !.latestFailure = FALSE]]
    /\ UNCHANGED <<recordings, draft>>

\* fetch resolves with the endpoint's response: lines 97-127
FetchResolves(k) ==
    /\ calls[k].client # "direct"
    /\ ~calls[k].settled
    /\ calls[k].stage = "responded"
    /\ IF ~ResponseOk(calls[k].status)
       THEN TranscribeFails(k, ApiFailedMessage(calls[k].status, calls[k].body), "http")
       ELSE IF TextReceived(calls[k].text)
       THEN /\ recordings' = SetTranscription(recordings, calls[k].recordingId, calls[k].text)
            /\ draft' = JoinDraft(draft, calls[k].text)
            /\ isTranscribing' = TranscribingAfterSettle(TRUE)
            /\ calls' = [calls EXCEPT ![k].settled = TRUE, ![k].outcome = "text"]
            /\ UNCHANGED transcriptionError
       ELSE TranscribeFails(k, NoTextMessage, "notext")
    /\ UNCHANGED <<webmSupported, isRecording, hasPermission, isProcessing, playingId,
                   mediaRecorderRef, audioChunksRef, recorders, pendingMedia,
                   audio, now, started, retries>>

\* fetch rejects: the network loses the request before the endpoint has it,
\* or the response on its way back: lines 122-127
FetchRejects(k) ==
    /\ calls[k].client # "direct"
    /\ ~calls[k].settled
    /\ calls[k].stage \in {"sent", "responded"}
    /\ TranscribeFails(k, FetchFailedMessage, "network")
    /\ UNCHANGED <<webmSupported, isRecording, hasPermission, isProcessing, playingId,
                   mediaRecorderRef, audioChunksRef, recorders, pendingMedia,
                   audio, now, started, retries>>

-----------------------------------------------------------------------------
(* The endpoint: POST of route.ts, and the speech-to-text model it awaits *)

\* POST up to its await transcribe(...), or to the response it returns
\* before: lines 8-48, and the catch block for a body formData() rejects
GatewayPOST(k) ==
    /\ calls[k].stage = "sent"
    /\ ~calls[k].settled
    /\ IF calls[k].kind = "unparseable"
       THEN Respond(k, 500, Null, FailureJson(ParseFailedMessage))
       ELSE IF AudioMissing(calls[k].kind)
       THEN Respond(k, 400, Null, NoAudioBody)
       ELSE IF SizeExceedsLimit(calls[k].size)
       THEN Respond(k, 400, Null, TooLargeBody)
       ELSE calls' = [calls EXCEPT ![k].stage = "atModel",
                                   ![k].modelCalls = calls[k].modelCalls + 1]
    /\ UNCHANGED sessionVars

\* transcribe(...) resolves: lines 50-65
ModelReturns(k, text) ==
    /\ calls[k].stage = "atModel"
    /\ Respond(k, 200, text, Null)
    /\ UNCHANGED sessionVars

\* transcribe(...) throws: the catch block, lines 66-88
ModelThrows(k, message) ==
    /\ calls[k].stage = "atModel"
    /\ calls' = [calls EXCEPT ![k].stage = "responded", ![k].status = 500,
                              ![k].body = FailureJson(message),
                              ![k].upstream = message]
    /\ UNCHANGED sessionVars

\* another HTTP client posts to the endpoint
DirectRequest(kind, size) ==
    /\ Len(calls) < MaxDirect
    /\ calls' = Append(calls, NewCall("direct", Null, kind, size))
    /\ UNCHANGED sessionVars

\* and receives the response
DirectResponse(k) ==
    /\ calls[k].client = "direct"
    /\ ~calls[k].settled
    /\ calls[k].stage = "responded"
    /\ calls' = [calls EXCEPT ![k].settled = TRUE]
    /\ UNCHANGED sessionVars

-----------------------------------------------------------------------------
(* Playback: togglePlayback and the audio elements' events *)

Pause(els, i) == [els EXCEPT ![i].playing = FALSE]
Play(els, i) == [els EXCEPT ![i].playing = TRUE]

\* the play/pause button of a recording: togglePlayback, lines 150-167
TogglePlayback(recordingId) ==
    /\ AudioRefsGet(recordingId) # 0
    /\ IF playingId = recordingId
       THEN /\ audio' = Pause(audio, AudioRefsGet(recordingId))
            /\ playingId' = Null
       ELSE /\ audio' = Play(IF playingId # Null /\ AudioRefsGet(playingId) # 0
                             THEN Pause(audio, AudioRefsGet(playingId))
                             ELSE audio,
                             AudioRefsGet(recordingId))
            /\ playingId' = recordingId
    /\ UNCHANGED <<webmSupported, isRecording, hasPermission, recordings, isProcessing,
                   isTranscribing, transcriptionError, mediaRecorderRef,
                   audioChunksRef, draft, recorders, pendingMedia, calls, now,
                   started, retries>>

\* an element plays to the end of its audio: it falls silent and queues the
\* task that will fire its ended event
PlaybackReachesEnd(i) ==
    /\ audio[i].playing
    /\ audio' = [audio EXCEPT ![i].playing = FALSE, ![i].endedQueued = TRUE]
    /\ UNCHANGED <<webmSupported, isRecording, hasPermission, recordings, isProcessing, playingId,
                   isTranscribing, transcriptionError, mediaRecorderRef,
                   audioChunksRef, draft, recorders, pendingMedia, calls, now,
                   started, retries>>

\* the queued task runs: onEnded={() => setPlayingId(null)}, line 288
AudioEnded(i) ==
    /\ audio[i].endedQueued
    /\ audio' = [audio EXCEPT ![i].endedQueued = FALSE]
    /\ playingId' = Null
    /\ UNCHANGED <<webmSupported, isRecording, hasPermission, recordings, isProcessing,
                   isTranscribing, transcriptionError, mediaRecorderRef,
                   audioChunksRef, draft, recorders, pendingMedia, calls, now,
                   started, retries>>

-----------------------------------------------------------------------------
(* Specifications *)

\* capture and transcription, as the component runs them
SessionNext ==
    \/ MicClick
    \/ StopClick
    \/ MediaGranted
    \/ MediaRefused
    \/ \E r \in DOMAIN recorders : RecorderStops(r)
    \/ RetryClick
    \/ \E k \in DOMAIN calls : FetchResolves(k)
    \/ \E k \in DOMAIN calls : FetchRejects(k)

\* the endpoint serving the requests it was sent
GatewayNext ==
    \/ \E k \in DOMAIN calls : GatewayPOST(k)
    \/ \E k \in DOMAIN calls, text \in Texts : ModelReturns(k, text)
    \/ \E k \in DOMAIN calls, message \in UpstreamMessages : ModelThrows(k, message)

\* the recordings' play/pause buttons and audio elements
PlaybackNext ==
    \/ \E id \in {recordings[i].id : i \in DOMAIN recordings} : TogglePlayback(id)
    \/ \E i \in DOMAIN audio : PlaybackReachesEnd(i)
    \/ \E i \in DOMAIN audio : AudioEnded(i)

\* requests of other HTTP clients
DirectNext ==
    \/ \E kind \in {"unparseable", "noaudio"} : DirectRequest(kind, 0)
    \/ \E size \in DirectSizes : DirectRequest("file", size)
    \/ \E k \in DOMAIN calls : DirectResponse(k)

Next == SessionNext \/ GatewayNext

\* The session: the component in one browser tab with the endpoint behind
\* it.  The playback actions are left to PlaybackSpec: they change audio and
\* playingId only, and no action of Next reads either.
Spec == Init /\ [][Next]_vars

\* The endpoint alone, serving whatever requests HTTP clients send it
GatewaySpec == Init /\ [][DirectNext \/ GatewayNext]_vars

\* Playback, over the recordings a session makes while the endpoint cannot
\* be reached
PlaybackSpecNext ==
    \/ MicClick
    \/ StopClick
    \/ MediaGranted
    \/ MediaRefused
    \/ \E r \in DOMAIN recorders : RecorderStops(r)
    \/ \E k \in DOMAIN calls : FetchRejects(k)
    \/ PlaybackNext

PlaybackSpec == Init /\ [][PlaybackSpecNext]_vars

\* transcribeAudio calls a run can make
MaxCalls == MaxCaptures + MaxRetries

\* The session with the fairness its scheduling gives a request: a request
\* that has been sent is not left waiting for ever
\* the next step of the component's call k: the endpoint handles it, the
\* model call returns or throws, the fetch settles
CallProgress(k) ==
    /\ k \in DOMAIN calls
    /\ \/ GatewayPOST(k)
       \/ \E text \in Texts : ModelReturns(k, text)
       \/ \E message \in UpstreamMessages : ModelThrows(k, message)
       \/ FetchResolves(k)
       \/ FetchRejects(k)

FairSpec == Spec /\ \A k \in 1..MaxCalls : WF_vars(CallProgress(k))

-----------------------------------------------------------------------------
(* Shape of the state *)

TypeOK ==
    /\ isRecording \in BOOLEAN
    /\ hasPermission \in {Null, "true", "false"}
    /\ isProcessing \in BOOLEAN
    /\ isTranscribing \in BOOLEAN
    /\ mediaRecorderRef \in 0..Len(recorders)
    /\ pendingMedia \in 0..MaxCaptures
    /\ Len(audio) = Len(recordings)
    /\ \A r \in DOMAIN recorders :
         recorders[r].state \in {"unbuilt", "recording", "stopping", "inactive"}
    /\ \A k \in DOMAIN calls :
         /\ calls[k].stage \in {"sent", "atModel", "responded"}
         /\ calls[k].settled \in BOOLEAN

\* the captures whose stop callback has run
Finalized == {r \in DOMAIN recorders : recorders[r].state = "inactive"}

-----------------------------------------------------------------------------
(* C1 *)

\* C1: every capture that was started and stopped has appended exactly one
\* Recording, and that Recording's payload is the concatenation, in arrival
\* order, of the chunks the capture delivered.
C1_OneRecordingWithOwnChunks ==
    /\ Len(recordings) = Cardinality(Finalized)
    /\ \A r \in Finalized :
         /\ recorders[r].recording \in DOMAIN recordings
         /\ recordings[recorders[r].recording].blob = recorders[r].data
    /\ \A r1, r2 \in Finalized :
         recorders[r1].recording = recorders[r2].recording => r1 = r2

-----------------------------------------------------------------------------
(* C2 *)

\* the recordings whose audio element is playing
Playing == {i \in DOMAIN audio : audio[i].playing}

\* no two Recordings share an identifier
DistinctIds ==
    \A i, j \in DOMAIN recordings : recordings[i].id = recordings[j].id => i = j

\* C2: at most one Recording's audio is playing, whatever the interleaving
\* of togglePlayback calls and end-of-audio events.  Stated for sessions
\* whose Recordings have distinct identifiers, so that a violation is one of
\* togglePlayback and onEnded themselves.
C2_AtMostOnePlayingDistinctIds == DistinctIds => Cardinality(Playing) <= 1

-----------------------------------------------------------------------------
(* C3, C4: the endpoint's rejections *)

\* the endpoint has answered call k
Answered(k) == calls[k].stage = "responded"

\* C3: a request whose audio is larger than 25 MiB is answered with the
\* size rejection and never reaches the speech-to-text model; a request whose
\* audio is 25 MiB or smaller is not rejected for its size and is forwarded.
C3_TooLargeRejected ==
    \A k \in DOMAIN calls :
        calls[k].kind = "file" =>
            IF calls[k].size > 25 * 1024 * 1024
            THEN /\ calls[k].modelCalls = 0
                 /\ calls[k].stage # "atModel"
                 /\ Answered(k) => /\ calls[k].status = 400
                                   /\ calls[k].body = TooLargeBody
            ELSE /\ calls[k].body # TooLargeBody
                 /\ calls[k].stage # "sent" => calls[k].modelCalls = 1

\* a request one byte over the ceiling has been rejected and one of exactly
\* 25 MiB has been forwarded
C3_Witness ==
    /\ \E k \in DOMAIN calls :
         /\ calls[k].size = 25 * 1024 * 1024 + 1
         /\ Answered(k)
         /\ calls[k].body = TooLargeBody
    /\ \E k \in DOMAIN calls :
         /\ calls[k].kind = "file"
         /\ calls[k].size = 25 * 1024 * 1024
         /\ calls[k].modelCalls = 1

\* C4: an upload with no audio field is answered with a client-error status
\* and never reaches the speech-to-text model.
C4_MissingAudioRejected ==
    \A k \in DOMAIN calls :
        calls[k].kind = "noaudio" =>
            /\ calls[k].modelCalls = 0
            /\ calls[k].stage # "atModel"
            /\ Answered(k) => /\ calls[k].status \in 400..499
                              /\ calls[k].body = NoAudioBody

\* an upload with no audio field has been answered
C4_Witness ==
    \E k \in DOMAIN calls :
        /\ calls[k].kind = "noaudio"
        /\ Answered(k)
        /\ calls[k].status = 400

-----------------------------------------------------------------------------
(* C5 - C10: transcription *)

\* this step settles the component's call k
SettlesNow(k) == calls[k].client # "direct" /\ ~calls[k].settled /\ calls'[k].settled

\* this step starts a transcribeAudio call
StartsCall == Len(calls') = Len(calls) + 1

\* the Recordings a call is about
RecordingsOf(k) == {i \in DOMAIN recordings : recordings[i].id = calls[k].recordingId}

\* C5 (safety): a transcribeAudio call sets isTranscribing when it starts and
\* clears it when its fetch settles, whatever the outcome.
C5_FlagSetThenCleared ==
    [][/\ StartsCall => isTranscribing'
       /\ \A k \in DOMAIN calls : SettlesNow(k) => ~isTranscribing']_vars

\* C5 (liveness): under FairSpec every transcribeAudio call settles.
C5_EveryCallSettles ==
    \A k \in 1..MaxCalls :
        (k \in DOMAIN calls) ~> (k \in DOMAIN calls /\ calls[k].settled)

\* C5: every transcribe call sets transcribing when it starts, clears it when
\* its Gateway call settles whatever the outcome, and under fairness of the
\* Gateway response every call reaches that point.
C5_TranscribingCleared == C5_FlagSetThenCleared /\ C5_EveryCallSettles

\* every call has settled, one with text and one with a non-2xx response,
\* and the flag is down
C5_Witness ==
    /\ \A k \in DOMAIN calls : calls[k].settled
    /\ \E k \in DOMAIN calls : calls[k].outcome = "text"
    /\ \E k \in DOMAIN calls : calls[k].outcome = "http"
    /\ \E k \in DOMAIN calls : calls[k].outcome = "network"
    /\ ~isTranscribing


\* the endpoint's 500 response to call k, carrying the model's error, reaches
\* the component in this step
UpstreamFailureSettles(k) ==
    /\ SettlesNow(k)
    /\ calls[k].upstream # Null
    /\ calls'[k].outcome = "http"

\* this step leaves unset every unset transcription of the call's Recording
StillUnset(k) ==
    \A i \in RecordingsOf(k) :
        recordings[i].transcription = Null => recordings'[i].transcription = Null

\* C6 as claimed: when the model call fails with message m, after the call
\* settles the last error is "Transcription failed: " followed by m, the
\* flag is down and the Recording's transcription is still unset.
C6_ErrorIsUpstreamMessage ==
    [][\A k \in DOMAIN calls :
          UpstreamFailureSettles(k) =>
              /\ transcriptionError' = "Transcription failed: " \o calls[k].upstream
              /\ ~isTranscribing'
              /\ StillUnset(k)]_vars

\* C6 as amended: the last error is "API request failed: 500 - " followed by
\* the body of the endpoint's response, a JSON text whose error field is
\* "Transcription failed: " followed by m; the rest as claimed.
C6_ErrorIsStatusAndBody ==
    [][\A k \in DOMAIN calls :
          UpstreamFailureSettles(k) =>
              /\ transcriptionError' =
                   "API request failed: 500 - "
                       \o "{\"error\":\"Transcription failed: " \o calls[k].upstream
                       \o "\",\"details\":\"Error: " \o calls[k].upstream
                       \o "\",\"type\":\"Error\",\"debug\":{\"error\":{\"message\":\""
                       \o calls[k].upstream
                       \o "\",\"type\":\"Error\",\"stack\":\"Error: "
                       \o calls[k].upstream \o "\"}}}"
              /\ ~isTranscribing'
              /\ StillUnset(k)]_vars

\* a model failure has reached the component: its message is on display
\* inside the status line and the JSON body, the Recording is untranscribed
C6_Witness ==
    \E k \in DOMAIN calls :
        /\ calls[k].settled
        /\ calls[k].outcome = "http"
        /\ calls[k].upstream = "rate limit exceeded"
        /\ transcriptionError = ApiFailedMessage(500, calls[k].body)
        /\ ~isTranscribing
        /\ \A i \in RecordingsOf(k) : recordings[i].transcription = Null

\* the transcribeAudio call k succeeds in this step: a 2xx response with a
\* text the component accepts
SuccessSettles(k) == SettlesNow(k) /\ calls'[k].outcome = "text"

\* C7: when a transcribe call succeeds with text t, the draft b becomes t if
\* b was empty and b, one space, t otherwise.
C7_DraftSpaceJoined ==
    [][\A k \in DOMAIN calls :
          SuccessSettles(k) =>
              draft' = IF draft = "" THEN calls[k].text
                       ELSE draft \o " " \o calls[k].text]_vars

\* "hello world" arrived in an empty draft, then "foo"
C7_Witness ==
    /\ draft = "hello world foo"
    /\ \E k \in DOMAIN calls : calls[k].outcome = "text" /\ calls[k].text = "foo"

\* a step that fails: startRecording ends in its catch block (the device is
\* refused, or the recorder cannot be built), or a transcribeAudio call ends
\* in its catch block (a non-2xx response such as the size rejection or the
\* model's failure, a response without text, a network failure)
DeviceRefusedNow == pendingMedia' = pendingMedia - 1 /\ hasPermission' = "false"
CallFailsNow(k) == SettlesNow(k) /\ calls'[k].outcome # "text"
EndpointRejectsNow(k) ==
    /\ calls[k].stage # "responded"
    /\ calls'[k].stage = "responded"
    /\ calls'[k].status # 200

\* C8: a failing step leaves the recordings list and the draft as they were.
C8_FailureKeepsRecordingsAndDraft ==
    [][(\/ DeviceRefusedNow
        \/ \E k \in DOMAIN calls : CallFailsNow(k) \/ EndpointRejectsNow(k))
       => /\ recordings' = recordings
          /\ draft' = draft]_vars

\* with two Recordings and a draft in place, one call has failed on the
\* size rejection and one on the model's error
C8_Witness ==
    /\ Len(recordings) = 2
    /\ draft # ""
    /\ \E k \in DOMAIN calls :
         calls[k].settled /\ calls[k].outcome = "http" /\ calls[k].body = TooLargeBody
    /\ \E k \in DOMAIN calls :
         calls[k].settled /\ calls[k].outcome = "http" /\ calls[k].upstream # Null

\* this step is a Retry click
RetryNow == retries' = retries + 1

\* C9: transcribe and retryTranscribe keep the length and order of the
\* recordings list; a success sets the transcription of the Recordings with
\* the call's identifier and changes nothing else.
C9_TranscribeKeepsList ==
    [][/\ RetryNow => recordings' = recordings
       /\ \A k \in DOMAIN calls :
            SettlesNow(k) =>
                /\ Len(recordings') = Len(recordings)
                /\ \A i \in DOMAIN recordings :
                     recordings'[i] =
                         IF SuccessSettles(k) /\ i \in RecordingsOf(k)
                         THEN [recordings[i] EXCEPT !.transcription = calls[k].text]
                         ELSE recordings[i]]_vars

\* a retry of a Recording that already had a transcription has succeeded,
\* beside another Recording
C9_Witness ==
    /\ Len(recordings) = 2
    /\ \E k, j \in DOMAIN calls :
         /\ j < k
         /\ calls[k].client = "retry"
         /\ calls[k].outcome = "text"
         /\ calls[j].recordingId = calls[k].recordingId
         /\ calls[j].outcome = "text"
         /\ \E i \in RecordingsOf(k) : recordings[i].transcription = calls[k].text

\* the endpoint's answer to call k, the empty text, reaches the component in
\* this step
SilenceSettles(k) ==
    /\ SettlesNow(k)
    /\ calls[k].stage = "responded"
    /\ calls[k].status = 200
    /\ calls[k].text = ""
    /\ calls'[k].outcome # "network"

\* C10: when the model recognises the empty string, the endpoint answers
\* with a success carrying the empty text, and after the transcribe call
\* settles the last error is absent.
C10_SilenceIsNoError ==
    [][\A k \in DOMAIN calls : SilenceSettles(k) => transcriptionError' = Null]_vars


-----------------------------------------------------------------------------
(* C11 - C14: the recordings list *)

\* C11: a Recording's identifier, payload, playable handle and timestamp
\* never change, and its transcription, once set, never changes again and
\* never returns to unset.  Stated for steps from a list whose identifiers
\* are distinct, so that a violation is not one of two Recordings sharing
\* an identifier.
C11_RecordingImmutable ==
    [][DistinctIds => \A i \in DOMAIN recordings :
          /\ i \in DOMAIN recordings'
          /\ recordings'[i].id = recordings[i].id
          /\ recordings'[i].blob = recordings[i].blob
          /\ recordings'[i].url = recordings[i].url
          /\ recordings'[i].timestamp = recordings[i].timestamp
          /\ recordings[i].transcription # Null =>
                 recordings'[i].transcription = recordings[i].transcription]_vars

\* C12 as claimed: exactly one of isRecording and isProcessing is true.
C12_ExactlyOneFlag == isRecording # isProcessing

\* C12 as amended: isRecording and isProcessing are never both true (and
\* both are false while the session is idle).
C12_AtMostOneFlag == ~(isRecording /\ isProcessing)

\* a capture is running after an earlier one was finalized: isRecording is
\* the one flag that is up
C12_Witness == isRecording /\ ~isProcessing /\ recordings # <<>>

\* C13: a Retry click re-transcribes the Recording whose transcription
\* failed most recently.
C13_RetryTakesLatestFailure ==
    [][RetryNow =>
          \E f \in DOMAIN calls :
              /\ calls[f].latestFailure
              /\ calls'[Len(calls')].recordingId = calls[f].recordingId]_vars

\* capture r is finalized in this step: its stop callback runs
FinalizesNow(r) ==
    /\ recorders[r].state = "stopping"
    /\ recorders'[r].state = "inactive"

\* C14: the recordings list is append-only.  In every step the old list is a
\* prefix of the new one up to the transcription field; the list grows only
\* in a step that finalizes a capture, by one Recording placed last, so the
\* Recordings stand in the order in which their captures were finalized.
C14_AppendOnly ==
    [][/\ Len(recordings') >= Len(recordings)
       /\ \A i \in DOMAIN recordings :
            /\ recordings'[i].id = recordings[i].id
            /\ recordings'[i].blob = recordings[i].blob
            /\ recordings'[i].url = recordings[i].url
            /\ recordings'[i].timestamp = recordings[i].timestamp
       /\ Len(recordings') # Len(recordings) =>
            \E r \in DOMAIN recorders : FinalizesNow(r)
       /\ \A r \in DOMAIN recorders :
            FinalizesNow(r) =>
                /\ Len(recordings') = Len(recordings) + 1
                /\ recordings'[Len(recordings')].timestamp = now'
                /\ recordings'[Len(recordings')].url = ObjectUrl(Len(recordings'))
                /\ recordings'[Len(recordings')].transcription = Null]_vars

\* two captures have been finalized one after the other, and the first
\* Recording has received its transcription since
C14_Witness ==
    /\ Len(recordings) = 2
    /\ Cardinality(Finalized) = 2
    /\ recordings[1].transcription # Null
    /\ recordings[2].transcription = Null

-----------------------------------------------------------------------------
(* C15 - C20: the device, the requests and the identifiers *)

\* a pending startRecording gets its answer from the device in this step:
\* getUserMedia rejects, or resolves with a stream
AccessRefusedNow ==
    /\ pendingMedia' = pendingMedia - 1
    /\ recorders' = recorders
AccessGrantedNow ==
    /\ pendingMedia' = pendingMedia - 1
    /\ Len(recorders') = Len(recorders) + 1

\* the device handles (streams) the session holds open
LiveStreams == {r \in DOMAIN recorders : recorders[r].streamLive}

\* C15: when device access is refused the session does not become capturing,
\* acquires no device handle, appends no Recording and reports permission
\* denied; when access is granted the session is capturing and the last
\* error is absent.
C15_StartCaptureOutcome ==
    [][/\ AccessRefusedNow =>
            /\ isRecording' = isRecording
            /\ recordings' = recordings
            /\ hasPermission' = "false"
       /\ AccessGrantedNow =>
            /\ isRecording'
            /\ transcriptionError' = Null]_vars

\* the requests the component has sent to the endpoint
ClientRequests == {k \in DOMAIN calls : calls[k].client # "direct"}

\* C16: no failure is retried automatically.  The requests the component has
\* sent are as many as the Recordings finalized plus the Retry clicks, and
\* the endpoint has called the model at most once for each request.
C16_NoAutomaticRetry ==
    /\ Cardinality(ClientRequests) = Len(recordings) + retries
    /\ \A k \in DOMAIN calls : calls[k].modelCalls <= 1

\* two Recordings and one Retry click: three requests, all settled, one of
\* them failed after the endpoint had called the model
C16_Witness ==
    /\ Len(recordings) = 2
    /\ retries = 1
    /\ \A k \in DOMAIN calls : calls[k].settled
    /\ \E k \in DOMAIN calls :
         calls[k].outcome = "http" /\ calls[k].modelCalls = 1

\* the component's requests that still await the endpoint's response
AwaitingResponse ==
    {k \in ClientRequests : ~calls[k].settled /\ calls[k].stage # "responded"}

\* C17: capture and transcription are not serialized.  A startRecording that
\* awaits the device continues as soon as the device answers, whatever
\* requests are in flight, and a stopped recorder's callback runs and sends
\* its request whatever capture is running.
C17_CaptureNotSerialized ==
    /\ pendingMedia > 0 => ENABLED MediaGranted
    /\ \A r \in DOMAIN recorders :
         recorders[r].state = "stopping" => ENABLED RecorderStops(r)

\* a capture is running while a request awaits the endpoint's response
C17_Witness ==
    /\ isRecording
    /\ recorders[mediaRecorderRef].state = "recording"
    /\ AwaitingResponse # {}

\* C18: while a request of the component awaits the endpoint's response,
\* isTranscribing is true.
C18_FlagCoversEveryRequest == AwaitingResponse # {} => isTranscribing

\* no capture is running, none awaits the device, no stop callback is pending
SessionIdle ==
    /\ ~isRecording
    /\ pendingMedia = 0
    /\ \A r \in DOMAIN recorders : recorders[r].state # "stopping"

\* C19: the session holds at most one device handle, and none when it is
\* idle.  Stated for browsers that record audio/webm, where every stream
\* granted gets its recorder, so that a violation comes from the
\* interleaving of clicks, grants and stop callbacks alone.
C19_OneHandleNoneWhenIdle ==
    webmSupported =>
        /\ Cardinality(LiveStreams) <= 1
        /\ SessionIdle => LiveStreams = {}

\* C20: the Recordings of the list have pairwise distinct identifiers.  The
\* clock the identifiers are read from does not go back (RecorderStops).
C20_IdentifiersDistinct ==
    \A i, j \in DOMAIN recordings :
        i # j => recordings[i].id # recordings[j].id

====
